---- MODULE Spec2Model ----
(***************************************************************************)
(* State-machine model of the Confluence ingestion helpers:                *)
(*   batch/utilities/helpers/confluence_oauth.py      (OAuth2 + tokens)    *)
(*   batch/utilities/helpers/confluence_client.py     (Content API client) *)
(*   batch/utilities/helpers/confluence_processor.py  (page processor)     *)
(*   pages/01_Ingest_Data.py                          (Streamlit page)     *)
(* Each component has its own specification over the shared variables:     *)
(* SpecToken, SpecIngest, SpecValidate, SpecUI, SpecHelpers, SpecUrls.     *)
(***************************************************************************)
EXTENDS Integers, Sequences, FiniteSets, TLC

VARIABLES
    now,        \* datetime.utcnow(), in whole seconds
    tokens,     \* TokenManager.tokens : key -> token_data
    tmCall      \* observation of the last TokenManager call

VARIABLES
    pc,                  \* where process_confluence_pages stands
    args,                \* its arguments
    confluence_client,   \* the ConfluenceClient it built
    all_page_ids,        \* the pages to process
    cursor,              \* index of the next element of the running for loop
    successful_uploads,  \* titles uploaded
    errors,              \* (page_id, error_msg) pairs
    wiki,                \* what the wiki answered for each page fetched so far
    requests,            \* HTTP requests and blob uploads issued, in order,
                         \* each with what came back
    raised               \* the exception that left the function

VARIABLES
    vpc,        \* where validate_confluence_credentials stands
    vargs,      \* its arguments
    vclient,    \* the ConfluenceClient it built
    vrequests,  \* HTTP requests it issued, each with what came back
    vresult     \* the (is_valid, message) pair it returned

VARIABLES
    session_state,  \* st.session_state, the Confluence keys
    query_params,   \* st.query_params: code and state
    generated,      \* how many states get_authorization_url has generated
    exchanges,      \* the exchange_code_for_token calls made, in order
    selector        \* what the last run of display_confluence_page_selector
                    \* did

VARIABLES
    url_pc,      \* where add_urls and add_url_embeddings stand
    urls,        \* the argument of add_url_embeddings
    url_cursor,  \* index of the next element of its for loop
    posts,       \* the POSTs to /api/AddURLEmbeddings, in order, each with
                 \* the url of its body and what came back
    url_result,  \* what add_url_embeddings returned
    urls_text    \* st.session_state["urls"], as its lines

VARIABLES
    helperClient,  \* the ConfluenceClient a caller constructed directly
    helperCall     \* observation of the last direct call of a
                   \* ConfluenceClient or ConfluenceOAuth2 method

tokenVars == <<now, tokens, tmCall>>

uiVars == <<session_state, query_params, generated, exchanges, selector>>

validateVars == <<vpc, vargs, vclient, vrequests, vresult>>

ingestVars == <<pc, args, confluence_client, all_page_ids, cursor,
                successful_uploads, errors, wiki, requests, raised>>

helperVars == <<helperClient, helperCall>>

urlVars == <<url_pc, urls, url_cursor, posts, url_result, urls_text>>

vars == <<tokenVars, ingestVars, validateVars, uiVars, helperVars, urlVars>>

----------------------------------------------------------------------------
(* Bounds of the model.                                                    *)

\* the clock runs from StartTime to StartTime + MaxTicks
StartTime == 59
MaxTicks == 1
\* longest page_ids list handed to process_confluence_pages
MaxPages == 3
\* most spaces GET /wiki/api/v2/spaces answers with
MaxSpaces == 2
\* most clicks on "Authorize with Confluence"
MaxAuthorize == 2
\* most token exchanges attempted
MaxExchanges == 2
\* most lines in the URL text area
MaxUrls == 3

(* Program constants.                                                      *)

\* timedelta(minutes=5) in is_token_expired, in seconds
Margin == 300
\* seconds per minute, the carry of the ISO-8601 text of a datetime
SecondsPerMinute == 60

----------------------------------------------------------------------------
(* Python values.  An optional value (a dict key that may be missing, a    *)
(* value that may be None) is a sequence of length at most one.            *)

\* a missing dict key; dict.get turns it into None, which is written alike
Absent == <<>>
Some(v) == <<v>>
\* the value of a present optional
Val(o) == o[1]

\* Python's None where a dict is expected
PyNone == [py |-> "None"]
\* a key that self.tokens does not hold
NoEntry == [py |-> "missing"]
\* no refresh_callback argument (its default, None)
NoCallback == [py |-> "no callback"]
\* a callback that raises
Raises == [py |-> "raise"]

Keys == {"k1", "k2"}
AccessTokens == {"at1"}
\* the access token a refresh hands out
RefreshedAccessTokens == {"at2"}
RefreshTokens == {"rt1"}

Times == StartTime..(StartTime + MaxTicks)

\* datetime.isoformat(): the text "MM:SS" of an instant, as <<minutes, seconds>>
isoformat(t) == <<t \div SecondsPerMinute, t % SecondsPerMinute>>

\* datetime.fromisoformat(): the instant a text denotes
fromisoformat(s) == s[1] * SecondsPerMinute + s[2]

\* expires_in values around the safety margin
ExpiresInValues == {Margin, Margin + 1}

\* token_data dictionaries handed to store_token
TokenRecords ==
    [access_token : {Some(a) : a \in AccessTokens},
     refresh_token : {Some(r) : r \in RefreshTokens} \cup {Absent},
     expires_in : {Some(e) : e \in ExpiresInValues} \cup {Absent},
     obtained_at : {Some(isoformat(t)) : t \in Times} \cup {Absent}]

----------------------------------------------------------------------------
(* ConfluenceOAuth2.is_token_expired                                       *)

\* mutant: expired only strictly after the margin is reached
expiry_reached_strict(utcnow, expiration_time) ==
    utcnow > expiration_time - Margin

\* the comparison on line 162
expiry_reached(utcnow, expiration_time) == utcnow >= expiration_time - Margin

is_token_expired(token_data) ==
    IF token_data.obtained_at = Absent \/ token_data.expires_in = Absent
    THEN TRUE
    ELSE LET obtained_at == fromisoformat(Val(token_data.obtained_at))
             expires_in == Val(token_data.expires_in)
             expiration_time == obtained_at + expires_in
         IN  expiry_reached(now, expiration_time)

----------------------------------------------------------------------------
(* TokenManager                                                            *)

\* what a refresh_callback can do when called: raise, return None, or
\* return a freshly stamped token_data
CallbackRecords ==
    [access_token : {Some(a) : a \in RefreshedAccessTokens} \cup {Absent},
     refresh_token : {Some(r) : r \in RefreshTokens} \cup {Absent},
     expires_in : {Some(Margin + 1)},
     obtained_at : {Some(isoformat(now))}]

CallbackOutcomes == {Raises, PyNone} \cup CallbackRecords

Callbacks == {NoCallback} \cup CallbackOutcomes

\* mutant: a record already stored under the key is kept
store_token_setdefault(toks, key, token_data) ==
    IF toks[key] = NoEntry THEN [toks EXCEPT ![key] = token_data] ELSE toks

\* self.tokens[key] = token_data
store_token(toks, key, token_data) == [toks EXCEPT ![key] = token_data]

\* self.tokens.get(key)
get_token(toks, key) == IF toks[key] = NoEntry THEN PyNone ELSE toks[key]

\* the result of a get_valid_token call: the store afterwards, the value
\* returned, whether an exception left the call, the arguments the callback
\* was called with
CallResult(toks, ret, calls) ==
    [tokens |-> toks, ret |-> ret, raised |-> FALSE, refreshCalls |-> calls]

\* mutant: the exception of the callback leaves get_valid_token
refresh_failed_propagates(toks, calls) ==
    [CallResult(toks, Absent, calls) EXCEPT !.raised = TRUE]

\* except Exception (lines 242-244): log, return None
refresh_failed(toks, calls) == CallResult(toks, Absent, calls)

\* mutant: the refreshed token_data is returned but not stored
try_refresh_no_store(toks, key, token_data, cb) ==
    LET calls == <<Val(token_data.refresh_token)>>
    IN  IF cb \in {Raises, PyNone}
        THEN refresh_failed(toks, calls)
        ELSE CallResult(toks, cb.access_token, calls)

\* lines 239-241: call the callback, store its result, return its access token
try_refresh(toks, key, token_data, cb) ==
    LET calls == <<Val(token_data.refresh_token)>>
    IN  IF cb = Raises
        THEN refresh_failed(toks, calls)
        ELSE LET stored == store_token(toks, key, cb)
             IN  IF cb = PyNone
                 THEN \* None.get raises AttributeError after the store
                      refresh_failed(stored, calls)
                 ELSE CallResult(stored, cb.access_token, calls)

\* line 237: refresh only with a refresh token and a callback
can_refresh(token_data, cb) ==
    token_data.refresh_token # Absent /\ cb # NoCallback

\* mutant: a refreshable token is refreshed without looking at its expiry
get_valid_token_eager(toks, key, cb) ==
    LET token_data == get_token(toks, key)
    IN  IF token_data = PyNone
        THEN CallResult(toks, Absent, <<>>)
        ELSE IF can_refresh(token_data, cb)
             THEN try_refresh(toks, key, token_data, cb)
             ELSE IF is_token_expired(token_data)
                  THEN CallResult(toks, Absent, <<>>)
                  ELSE CallResult(toks, token_data.access_token, <<>>)

get_valid_token(toks, key, cb) ==
    LET token_data == get_token(toks, key)
    IN  IF token_data = PyNone
        THEN CallResult(toks, Absent, <<>>)
        ELSE IF is_token_expired(token_data)
             THEN IF can_refresh(token_data, cb)
                  THEN try_refresh(toks, key, token_data, cb)
                  ELSE CallResult(toks, Absent, <<>>)
             ELSE CallResult(toks, token_data.access_token, <<>>)

\* del self.tokens[key] when present
delete_token(toks, key) ==
    IF toks[key] # NoEntry THEN [toks EXCEPT ![key] = NoEntry] ELSE toks

\* self.tokens.clear()
clear_all(toks) == [k \in Keys |-> NoEntry]

NoCall == [op |-> "none"]

Tick ==
    /\ now < StartTime + MaxTicks
    /\ now' = now + 1
    /\ tmCall' = NoCall
    /\ UNCHANGED <<tokens, ingestVars, validateVars, uiVars,
                   helperVars, urlVars>>

StoreToken(key, token_data) ==
    /\ tokens' = store_token(tokens, key, token_data)
    /\ tmCall' = [op |-> "store_token", key |-> key,
                  token_data |-> token_data]
    /\ UNCHANGED <<now, ingestVars, validateVars, uiVars,
                   helperVars, urlVars>>

GetValidToken(key, cb) ==
    LET r == get_valid_token(tokens, key, cb)
    IN  /\ tokens' = r.tokens
        /\ tmCall' = [op |-> "get_valid_token", key |-> key, cb |-> cb,
                      before |-> tokens, ret |-> r.ret,
                      raised |-> r.raised, refreshCalls |-> r.refreshCalls]
        /\ UNCHANGED <<now, ingestVars, validateVars, uiVars,
                   helperVars, urlVars>>

DeleteToken(key) ==
    /\ tokens' = delete_token(tokens, key)
    /\ tmCall' = [op |-> "delete_token", key |-> key]
    /\ UNCHANGED <<now, ingestVars, validateVars, uiVars,
                   helperVars, urlVars>>

ClearAll ==
    /\ tokens' = clear_all(tokens)
    /\ tmCall' = [op |-> "clear_all"]
    /\ UNCHANGED <<now, ingestVars, validateVars, uiVars,
                   helperVars, urlVars>>

InitToken ==
    /\ now = StartTime
    /\ tokens = [k \in Keys |-> NoEntry]
    /\ tmCall = NoCall

NextToken ==
    \/ Tick
    \/ \E key \in Keys, token_data \in TokenRecords : StoreToken(key, token_data)
    \/ \E key \in Keys, cb \in Callbacks : GetValidToken(key, cb)
    \/ \E key \in Keys : DeleteToken(key)
    \/ ClearAll

----------------------------------------------------------------------------
(* ConfluenceClient                                                        *)

PageIds == {"p1", "p2", "p3"}

\* the current child pages of each page, in the order the API lists them
WikiChildren == [p \in PageIds |->
    CASE p = "p1" -> <<"p2", "p3">>
      [] p = "p2" -> <<"p3">>
      [] OTHER -> <<>>]

\* the title the API returns for a page
WikiTitle == [p \in PageIds |->
    CASE p = "p1" -> "Title 1"
      [] p = "p2" -> "Title 2"
      [] OTHER -> "Title 3"]

AuthTypes == {"oauth2", "basic", "saml"}

NoClient == [py |-> "None"]

\* mutant: an email and an api token are accepted whatever the auth type
ConfluenceClientAnyMode(base_url, email, api_token, access_token, auth_type) ==
    IF base_url = Absent
    THEN [ok |-> FALSE, error |-> "AttributeError"]
    ELSE IF auth_type = "oauth2" /\ access_token # Absent
    THEN [ok |-> TRUE, auth_type |-> auth_type,
          Authorization |-> <<"Bearer", Val(access_token)>>]
    ELSE IF email # Absent /\ api_token # Absent
    THEN [ok |-> TRUE, auth_type |-> auth_type,
          Authorization |-> <<"Basic", Val(email), Val(api_token)>>]
    ELSE [ok |-> FALSE, error |-> "ValueError"]

\* ConfluenceClient.__init__: the client, or the exception it raises
ConfluenceClient(base_url, email, api_token, access_token, auth_type) ==
    IF base_url = Absent
    THEN [ok |-> FALSE, error |-> "AttributeError"]   \* None.rstrip
    ELSE IF auth_type = "oauth2" /\ access_token # Absent
    THEN [ok |-> TRUE, auth_type |-> auth_type,
          Authorization |-> <<"Bearer", Val(access_token)>>]
    ELSE IF auth_type = "basic" /\ email # Absent /\ api_token # Absent
    THEN [ok |-> TRUE, auth_type |-> auth_type,
          Authorization |-> <<"Basic", Val(email), Val(api_token)>>]
    ELSE [ok |-> FALSE, error |-> "ValueError"]

\* what GET /wiki/api/v2/me can do: answer with a status (200 OK, 203
\* Non-Authoritative Information, 401 Unauthorized) or raise
MeStatuses == {"200", "203", "401"}
MeErrors == {"ConnectionError"}
MeOutcomes == MeStatuses \cup MeErrors

\* mutant: the exception of the request leaves verify_authentication
verify_except_propagates(e) == [ret |-> Absent, raised |-> Some(e)]

\* lines 212-214: except Exception, log and return False
verify_except(e) == [ret |-> Some(FALSE), raised |-> Absent]

\* lines 208-214: the value returned or the exception raised
verify_authentication_call(outcome) ==
    IF outcome \in MeErrors
    THEN verify_except(outcome)
    ELSE [ret |-> Some(outcome = "200"), raised |-> Absent]

\* verify_authentication as its callers see it: True on status 200, False
\* on any other status and on any exception
verify_authentication(outcome) ==
    verify_authentication_call(outcome).ret = Some(TRUE)

\* what GET /pages/{id}/child-pages can do: raise (a network error or a
\* status raise_for_status rejects) or list the children
ChildOutcomes == {"raise", "ok"}

\* what fetching and uploading one page can do
\*   fetch_fails   get_page_content raises
\*   no_title      the response carries no title
\*   upload_fails  blob_client.upload_file raises
\*   ok            nothing fails
PageOutcomes == {"fetch_fails", "no_title", "upload_fails", "ok"}

Unfetched == "unfetched"

----------------------------------------------------------------------------
(* process_confluence_pages                                                *)

PageIdLists == UNION {[1..n -> PageIds] : n \in 0..MaxPages}

\* an argument that is None or "" is Absent: both are false in a condition.
\* the credentials handed over: none, a token, an email alone, an email with
\* its api token, a token with an email
CredentialShapes ==
    {[email |-> Absent, api_token |-> Absent, access_token |-> Absent],
     [email |-> Absent, api_token |-> Absent, access_token |-> Some("at1")],
     [email |-> Some("me@corp"), api_token |-> Absent, access_token |-> Absent],
     [email |-> Some("me@corp"), api_token |-> Some("secret"),
      access_token |-> Absent],
     [email |-> Some("me@corp"), api_token |-> Absent,
      access_token |-> Some("at1")]}

ProcessArgs ==
    {[base_url |-> Some("https://wiki"), page_ids |-> ids,
      include_children |-> ch, auth_type |-> t, email |-> c.email,
      api_token |-> c.api_token, access_token |-> c.access_token] :
        ids \in PageIdLists, ch \in BOOLEAN, t \in AuthTypes,
        c \in CredentialShapes}

NoArgs == [py |-> "None"]

\* lines 44-60: the client for the auth type, or the exception
init_client(a) ==
    IF a.auth_type = "oauth2"
    THEN IF a.access_token = Absent
         THEN [ok |-> FALSE, error |-> "ValueError"]
         ELSE ConfluenceClient(a.base_url, Absent, Absent, a.access_token,
                               "oauth2")
    ELSE IF a.email = Absent \/ a.api_token = Absent
         THEN [ok |-> FALSE, error |-> "ValueError"]
         ELSE ConfluenceClient(a.base_url, a.email, a.api_token, Absent,
                               "basic")

\* lines 39-40 and the entry into the try block
ProcessCall ==
    /\ pc = "idle"
    /\ pc' = "init_client"
    /\ args' \in ProcessArgs
    /\ successful_uploads' = <<>>
    /\ errors' = <<>>
    /\ UNCHANGED <<confluence_client, all_page_ids, cursor, wiki, requests,
                   raised, tokenVars, validateVars, uiVars,
                   helperVars, urlVars>>

\* lines 126-128: log and re-raise
reraise(e) == Some(e)

\* lines 44-60
InitClient ==
    /\ pc = "init_client"
    /\ LET c == init_client(args)
       IN  IF c.ok
           THEN /\ confluence_client' = c
                /\ pc' = "verify"
                /\ UNCHANGED raised
           ELSE /\ raised' = reraise(c.error)
                /\ pc' = "raised"
                /\ UNCHANGED confluence_client
    /\ UNCHANGED <<args, all_page_ids, cursor, successful_uploads, errors,
                   wiki, requests, tokenVars, validateVars, uiVars,
                   helperVars, urlVars>>

\* mutant: the result of verify_authentication is not looked at
VerifyAuthenticationUnchecked(outcome) ==
    /\ pc = "verify"
    /\ requests' = Append(requests, <<"me", outcome>>)
    /\ pc' = "blob_client"
    /\ UNCHANGED <<args, confluence_client, all_page_ids, cursor,
                   successful_uploads, errors, wiki, raised, tokenVars, validateVars, uiVars,
                   helperVars, urlVars>>

\* lines 63-64
VerifyAuthentication(outcome) ==
    /\ pc = "verify"
    /\ requests' = Append(requests, <<"me", outcome>>)
    /\ IF verify_authentication(outcome)
       THEN /\ pc' = "blob_client"
            /\ UNCHANGED raised
       ELSE /\ raised' = reraise("ValueError")
            /\ pc' = "raised"
    /\ UNCHANGED <<args, confluence_client, all_page_ids, cursor,
                   successful_uploads, errors, wiki, tokenVars, validateVars, uiVars,
                   helperVars, urlVars>>

\* line 67 and line 70; AzureBlobStorageClient() may raise
InitBlobClient(ok) ==
    /\ pc = "blob_client"
    /\ IF ok
       THEN /\ pc' = "collect"
            /\ all_page_ids' = <<>>
            /\ cursor' = 1
            /\ UNCHANGED raised
       ELSE /\ raised' = reraise("BlobClientError")
            /\ pc' = "raised"
            /\ UNCHANGED <<all_page_ids, cursor>>
    /\ UNCHANGED <<args, confluence_client, successful_uploads, errors, wiki,
                   requests, tokenVars, validateVars, uiVars,
                   helperVars, urlVars>>

\* mutant: the children of the children are added too
child_ids_recursive(page_id, outcome) ==
    IF outcome = "raise" THEN <<>>
    ELSE LET c == WikiChildren[page_id]
         IN  c \o (IF c = <<>> THEN <<>> ELSE WikiChildren[c[1]])

\* lines 75-80: the ids get_child_pages adds; nothing when it raises
child_ids(page_id, outcome) ==
    IF outcome = "raise" THEN <<>> ELSE WikiChildren[page_id]

\* mutant: the page is appended inside the try block, after its children
\* were fetched
CollectPageInsideTry(outcome) ==
    /\ pc = "collect"
    /\ cursor <= Len(args.page_ids)
    /\ LET page_id == args.page_ids[cursor]
       IN  IF args.include_children
           THEN /\ requests' =
                       Append(requests, <<"child-pages", page_id, outcome>>)
                /\ all_page_ids' =
                       IF outcome = "raise" THEN all_page_ids
                       ELSE Append(all_page_ids, page_id)
                               \o child_ids(page_id, outcome)
           ELSE /\ outcome = "ok"
                /\ all_page_ids' = Append(all_page_ids, page_id)
                /\ UNCHANGED requests
    /\ cursor' = cursor + 1
    /\ UNCHANGED <<pc, args, confluence_client, successful_uploads, errors,
                   wiki, raised, tokenVars, validateVars, uiVars,
                   helperVars, urlVars>>

\* lines 71-80, one iteration
CollectPage(outcome) ==
    /\ pc = "collect"
    /\ cursor <= Len(args.page_ids)
    /\ LET page_id == args.page_ids[cursor]
       IN  IF args.include_children
           THEN /\ requests' =
                       Append(requests, <<"child-pages", page_id, outcome>>)
                /\ all_page_ids' = Append(all_page_ids, page_id)
                                      \o child_ids(page_id, outcome)
           ELSE /\ outcome = "ok"
                /\ all_page_ids' = Append(all_page_ids, page_id)
                /\ UNCHANGED requests
    /\ cursor' = cursor + 1
    /\ UNCHANGED <<pc, args, confluence_client, successful_uploads, errors,
                   wiki, raised, tokenVars, validateVars, uiVars,
                   helperVars, urlVars>>

\* line 83: the second loop starts when the first has run out
StartProcessing ==
    /\ pc = "collect"
    /\ cursor > Len(args.page_ids)
    /\ pc' = "process"
    /\ cursor' = 1
    /\ UNCHANGED <<args, confluence_client, all_page_ids, successful_uploads,
                   errors, wiki, requests, raised, tokenVars, validateVars, uiVars,
                   helperVars, urlVars>>

\* str(e) of the exception each failure raises
ErrorMsg(outcome) ==
    CASE outcome = "fetch_fails" -> "HTTPError"
      [] outcome = "no_title" -> "'NoneType' object is not subscriptable"
      [] OTHER -> "upload failed"

\* mutant: the failure of one page is logged but not recorded
record_error_dropped(errs, page_id, outcome) == errs

\* lines 119-121: the failure of one page is recorded
record_error(errs, page_id, outcome) ==
    Append(errs, <<page_id, ErrorMsg(outcome)>>)

\* mutant: the failure of one page leaves the loop through the outer handler
ProcessPageAborting(outcome) ==
    /\ pc = "process"
    /\ cursor <= Len(all_page_ids)
    /\ LET page_id == all_page_ids[cursor]
           fetch == <<"page", page_id>>
           upload == <<"upload", page_id, WikiTitle[page_id]>>
       IN  /\ wiki[page_id] \in {Unfetched, outcome}
           /\ wiki' = [wiki EXCEPT ![page_id] = outcome]
           /\ requests' = IF outcome \in {"ok", "upload_fails"}
                          THEN requests \o <<fetch, upload>>
                          ELSE Append(requests, fetch)
           /\ IF outcome = "ok"
              THEN /\ successful_uploads' =
                          Append(successful_uploads, WikiTitle[page_id])
                   /\ UNCHANGED <<pc, raised>>
              ELSE /\ raised' = reraise(ErrorMsg(outcome))
                   /\ pc' = "raised"
                   /\ UNCHANGED successful_uploads
    /\ cursor' = cursor + 1
    /\ UNCHANGED <<args, confluence_client, all_page_ids, errors, tokenVars, validateVars, uiVars,
                   helperVars, urlVars>>

\* get_page_content, lines 149-155: the dict returned always has the key
\* "title"; its value is None (Absent) when the response carries no title
get_page_content(page_id, outcome) ==
    [keys |-> {"id", "title", "content", "url"},
     title |-> IF outcome = "no_title" THEN Absent
               ELSE Some(WikiTitle[page_id])]

\* f"confluence-page-{page_id}"
fallback_title(page_id) == "confluence-page-" \o page_id

\* line 86: page_content.get("title", default) gives the default only when
\* the key is missing; a key that holds None gives None
get_title(page_content, default) ==
    IF "title" \in page_content.keys THEN page_content.title
    ELSE Some(default)

\* line 98: title[:50] raises TypeError when title is None
slice_raises(title) == title = Absent

\* lines 83-124, one iteration.  The wiki answers the same for a page
\* fetched a second time within one batch.
ProcessPage(outcome) ==
    /\ pc = "process"
    /\ cursor <= Len(all_page_ids)
    /\ LET page_id == all_page_ids[cursor]
           fetch == <<"page", page_id>>
           title == get_title(get_page_content(page_id, outcome),
                              fallback_title(page_id))
           uploading == outcome # "fetch_fails" /\ ~slice_raises(title)
       IN  /\ wiki[page_id] \in {Unfetched, outcome}
           /\ wiki' = [wiki EXCEPT ![page_id] = outcome]
           /\ requests' =
                 IF uploading
                 THEN requests \o <<fetch, <<"upload", page_id, Val(title)>>>>
                 ELSE Append(requests, fetch)
           /\ IF uploading /\ outcome # "upload_fails"
              THEN /\ successful_uploads' =
                          Append(successful_uploads, Val(title))
                   /\ UNCHANGED errors
              ELSE /\ errors' = record_error(errors, page_id, outcome)
                   /\ UNCHANGED successful_uploads
    /\ cursor' = cursor + 1
    /\ UNCHANGED <<pc, args, confluence_client, all_page_ids, raised,
                   tokenVars, validateVars, uiVars,
                   helperVars, urlVars>>

\* line 130
Return ==
    /\ pc = "process"
    /\ cursor > Len(all_page_ids)
    /\ pc' = "returned"
    /\ UNCHANGED <<args, confluence_client, all_page_ids, cursor,
                   successful_uploads, errors, wiki, requests, raised,
                   tokenVars, validateVars, uiVars,
                   helperVars, urlVars>>

InitIngest ==
    /\ pc = "idle"
    /\ args = NoArgs
    /\ confluence_client = NoClient
    /\ all_page_ids = <<>>
    /\ cursor = 1
    /\ successful_uploads = <<>>
    /\ errors = <<>>
    /\ wiki = [p \in PageIds |-> Unfetched]
    /\ requests = <<>>
    /\ raised = Absent

ProcessStep == \E outcome \in PageOutcomes : ProcessPage(outcome)

NextIngest ==
    \/ ProcessCall
    \/ InitClient
    \/ \E outcome \in MeOutcomes : VerifyAuthentication(outcome)
    \/ \E ok \in BOOLEAN : InitBlobClient(ok)
    \/ \E outcome \in ChildOutcomes : CollectPage(outcome)
    \/ StartProcessing
    \/ ProcessStep
    \/ Return

----------------------------------------------------------------------------
(* validate_confluence_credentials                                         *)

ValidateArgs ==
    [base_url : {Absent, Some("https://wiki")},
     email : {Absent, Some("me@corp")},
     api_token : {Absent, Some("secret")},
     access_token : {Absent, Some("at1")},
     auth_type : AuthTypes]

\* what get_spaces(limit=1) can do: raise, or return the spaces of the
\* response
SpaceLists == UNION {[1..n -> {"SPACE"}] : n \in 0..MaxSpaces}
SpacesOutcomes == {<<"raise", <<>>>>} \cup {<<"ok", l>> : l \in SpaceLists}

\* mutant: only ValueError is handled, any other exception propagates
validate_except_value_error_only(e) ==
    IF e = "ValueError"
    THEN [pc |-> "returned", result |-> Some(<<FALSE, "Invalid input">>)]
    ELSE [pc |-> "raised", result |-> Absent]

\* lines 180-183: an exception becomes a (False, message) pair
validate_except(e) ==
    [pc |-> "returned",
     result |-> Some(<<FALSE, IF e = "ValueError" THEN "Invalid input"
                              ELSE "Error validating credentials">>)]

\* line 153, the arguments bound
ValidateCall ==
    /\ vpc = "idle"
    /\ vpc' = "init_client"
    /\ vargs' \in ValidateArgs
    /\ UNCHANGED <<vclient, vrequests, vresult, tokenVars, ingestVars, uiVars,
                   helperVars, urlVars>>

\* lines 154-170
ValidateInitClient ==
    /\ vpc = "init_client"
    /\ IF vargs.auth_type = "oauth2" /\ vargs.access_token = Absent
       THEN /\ vpc' = "returned"
            /\ vresult' = Some(<<FALSE, "access_token is required for OAuth2">>)
            /\ UNCHANGED vclient
       ELSE IF vargs.auth_type # "oauth2"
               /\ (vargs.email = Absent \/ vargs.api_token = Absent)
       THEN /\ vpc' = "returned"
            /\ vresult' = Some(<<FALSE,
                            "email and api_token are required for basic auth">>)
            /\ UNCHANGED vclient
       ELSE LET c == IF vargs.auth_type = "oauth2"
                     THEN ConfluenceClient(vargs.base_url, Absent, Absent,
                                           vargs.access_token, "oauth2")
                     ELSE ConfluenceClient(vargs.base_url, vargs.email,
                                           vargs.api_token, Absent, "basic")
            IN  IF c.ok
                THEN /\ vclient' = c
                     /\ vpc' = "verify"
                     /\ UNCHANGED vresult
                ELSE /\ vpc' = validate_except(c.error).pc
                     /\ vresult' = validate_except(c.error).result
                     /\ UNCHANGED vclient
    /\ UNCHANGED <<vargs, vrequests, tokenVars, ingestVars, uiVars,
                   helperVars, urlVars>>

\* lines 172-173
ValidateVerify(outcome) ==
    /\ vpc = "verify"
    /\ vrequests' = Append(vrequests, <<"me", outcome>>)
    /\ IF verify_authentication(outcome)
       THEN /\ vpc' = "spaces"
            /\ UNCHANGED vresult
       ELSE /\ vpc' = "returned"
            /\ vresult' = Some(<<FALSE,
                           "Failed to authenticate with provided credentials">>)
    /\ UNCHANGED <<vargs, vclient, tokenVars, ingestVars, uiVars,
                   helperVars, urlVars>>

\* mutant: the list of spaces is not looked at
has_spaces_always(spaces) == TRUE

\* line 176: an empty list is false
has_spaces(spaces) == spaces # <<>>

\* lines 175-179
ValidateSpaces(outcome) ==
    /\ vpc = "spaces"
    /\ vrequests' = Append(vrequests, <<"spaces", outcome[1], outcome[2]>>)
    /\ IF outcome[1] = "raise"
       THEN /\ vpc' = validate_except("HTTPError").pc
            /\ vresult' = validate_except("HTTPError").result
       ELSE /\ vpc' = "returned"
            /\ vresult' = IF has_spaces(outcome[2])
                          THEN Some(<<TRUE, "Authentication successful">>)
                          ELSE Some(<<FALSE,
                   "No spaces found or user has no access to any spaces">>)
    /\ UNCHANGED <<vargs, vclient, tokenVars, ingestVars, uiVars,
                   helperVars, urlVars>>

InitValidate ==
    /\ vpc = "idle"
    /\ vargs = NoArgs
    /\ vclient = NoClient
    /\ vrequests = <<>>
    /\ vresult = Absent

NextValidate ==
    \/ ValidateCall
    \/ ValidateInitClient
    \/ \E outcome \in MeOutcomes : ValidateVerify(outcome)
    \/ \E outcome \in SpacesOutcomes : ValidateSpaces(outcome)

----------------------------------------------------------------------------
(* ConfluenceOAuth2: the authorization code flow                           *)

\* An OAuth state string is a number: 0 is the empty string, k >= 1 is the
\* k-th value secrets.token_urlsafe(32) returned, -1 is a string it never
\* returned.  None is Absent.
EmptyString == 0
Forged == -1

\* get_authorization_url, line 65: a fresh random state
token_urlsafe(n) == n + 1

AuthCodes == {"code1"}

\* the JSON object of a successful answer of the token endpoint; it may
\* carry an obtained_at of its own
TokenResponses ==
    [access_token : {Some(a) : a \in AccessTokens} \cup {Absent},
     refresh_token : {Some(r) : r \in RefreshTokens},
     expires_in : {Some(e) : e \in ExpiresInValues} \cup {Absent},
     obtained_at : {Absent, Some(isoformat(StartTime - 1))}]

\* a successful answer whose JSON is not an object
NotADict == [py |-> "list"]

\* what POSTing to the token endpoint can do: raise (a network error or a
\* status raise_for_status rejects) or answer with a JSON body
ExchangeOutcomes == {Raises, NotADict} \cup TokenResponses

\* mutant: the answer is returned as it came
stamp_missing(token_data) == token_data

\* lines 101-103 and 133-134: the answer, stamped with the time it was
\* obtained
stamp(token_data) ==
    [token_data EXCEPT !.obtained_at = Some(isoformat(now))]

\* lines 107-110 and 139-141: any exception becomes a ValueError
token_request_failed == [ret |-> Absent, raised |-> Some("ValueError")]

\* lines 89-110: the token_data returned or the exception raised
exchange_code_for_token(outcome) ==
    IF outcome \in {Raises, NotADict}   \* item assignment on a list raises
    THEN token_request_failed
    ELSE [ret |-> Some(stamp(outcome)), raised |-> Absent]

\* lines 122-141: the token_data returned or the exception raised
refresh_access_token(outcome) ==
    IF outcome \in {Raises, NotADict}
    THEN token_request_failed
    ELSE [ret |-> Some(stamp(outcome)), raised |-> Absent]

----------------------------------------------------------------------------
(* pages/01_Ingest_Data.py: the Confluence expander, with the OAuth2       *)
(* client id and secret configured (without them the OAuth2 tab is not     *)
(* shown, and the page behaves as if its buttons were never used).         *)

\* a value of confluence_url that is None
NoneUrl == "<None>"

Urls == {"https://wiki"}
Emails == {"me@corp"}
ApiTokens == {"secret"}

EmptySession ==
    [confluence_authenticated |-> Absent,
     oauth_state |-> Absent,
     confluence_url |-> Absent,
     confluence_token_data |-> Absent,
     confluence_auth_type |-> Absent,
     confluence_oauth_client |-> Absent,
     confluence_email |-> Absent,
     confluence_token |-> Absent]

NoQuery == [code |-> Absent, state |-> Absent]

NoSelectorRun == [op |-> "none"]

\* the answers of the token endpoint a login of the page is run with: it
\* raises, or answers as Atlassian does, with a lifetime and no obtained_at
LoginOutcomes ==
    {Raises} \cup {r \in TokenResponses : /\ r.expires_in = Some(Margin + 1)
                                         /\ r.obtained_at = Absent}

\* st.session_state.get("confluence_authenticated") is true
Authenticated == session_state.confluence_authenticated = Some(TRUE)

\* mutant: query_params.get("state") without a default
callback_state_no_default(q) == q.state

\* line 157: query_params.get("state", "")
callback_state(q) ==
    IF q.state = Absent THEN Some(EmptyString) ELSE q.state

\* line 159: the state of the callback is not the one the session holds
state_mismatch(q, ss) == callback_state(q) # ss.oauth_state

\* lines 166-174
oauth_login(ss, token_data) ==
    [ss EXCEPT !.confluence_token_data = Some(token_data),
               !.confluence_auth_type = Some("oauth2"),
               !.confluence_oauth_client = Some(TRUE),
               !.confluence_authenticated = Some(TRUE),
               !.confluence_url = IF ss.confluence_url = Absent
                                  THEN Some(NoneUrl) ELSE ss.confluence_url]

\* handle_oauth2_auth, lines 154-179: the page runs with a code in the URL
OAuthCallback(outcome) ==
    /\ ~Authenticated
    /\ query_params.code # Absent
    /\ IF state_mismatch(query_params, session_state)
       THEN \* st.error and return: no request is made, so its outcome
            \* plays no part
            /\ outcome = Raises
            /\ UNCHANGED <<session_state, exchanges>>
       ELSE /\ Len(exchanges) < MaxExchanges
            /\ LET r == exchange_code_for_token(outcome)
               IN  /\ exchanges' = Append(exchanges,
                         [code |-> Val(query_params.code),
                          state |-> query_params.state,
                          stored |-> session_state.oauth_state,
                          ok |-> r.raised = Absent])
                   /\ session_state' =
                         IF r.raised # Absent THEN session_state
                         ELSE oauth_login(session_state, Val(r.ret))
    /\ selector' = NoSelectorRun
    /\ UNCHANGED <<query_params, generated, tokenVars,
                   ingestVars, validateVars,
                   helperVars, urlVars>>

\* handle_oauth2_auth, lines 181-198: "Authorize with Confluence" clicked
Authorize(confluence_url) ==
    /\ ~Authenticated
    /\ query_params.code = Absent
    /\ generated < MaxAuthorize
    /\ generated' = generated + 1
    /\ session_state' =
          [session_state EXCEPT !.oauth_state = Some(token_urlsafe(generated)),
                                !.confluence_url = Some(confluence_url)]
    /\ selector' = NoSelectorRun
    /\ UNCHANGED <<query_params, exchanges, tokenVars, ingestVars,
                   validateVars,
                   helperVars, urlVars>>

\* handle_legacy_auth, lines 234-253: the form is submitted
LegacyLogin(confluence_url, confluence_email, confluence_token, is_valid) ==
    /\ ~Authenticated
    /\ IF confluence_url = Absent \/ confluence_email = Absent
             \/ confluence_token = Absent \/ ~is_valid
       THEN UNCHANGED session_state
       ELSE session_state' =
               [session_state EXCEPT !.confluence_url = confluence_url,
                                     !.confluence_email = confluence_email,
                                     !.confluence_token = confluence_token,
                                     !.confluence_auth_type = Some("basic"),
                                     !.confluence_authenticated = Some(TRUE)]
    /\ selector' = NoSelectorRun
    /\ UNCHANGED <<query_params, generated, exchanges, tokenVars,
                   ingestVars, validateVars,
                   helperVars, urlVars>>

\* the client display_confluence_page_selector builds, lines 259-281
selector_client(ss) ==
    IF ss.confluence_url = Absent
    THEN [ok |-> FALSE, error |-> "KeyError"]
    ELSE LET base_url == IF ss.confluence_url = Some(NoneUrl) THEN Absent
                         ELSE ss.confluence_url
         IN  IF ss.confluence_auth_type = Some("oauth2")
             THEN ConfluenceClient(base_url, Absent, Absent,
                     Val(ss.confluence_token_data).access_token, "oauth2")
             ELSE ConfluenceClient(base_url, ss.confluence_email,
                     ss.confluence_token, Absent, "basic")

\* lines 262-267: an oauth2 session without an access token ends the
\* selector before it builds a client or shows a button
selector_no_token(ss) ==
    /\ ss.confluence_auth_type = Some("oauth2")
    /\ \/ ss.confluence_token_data = Absent
       \/ Val(ss.confluence_token_data).access_token = Absent

\* display_confluence_page_selector, lines 256-375: one run of the page with
\* an authenticated session.  Without an access token it ends at line 267;
\* when the client cannot be built it ends in the handler of line 387;
\* otherwise the client lists spaces and pages with the credentials of the
\* session and, when "Ingest" is clicked, process_confluence_pages is called
\* with them.  expired is what is_token_expired says of the token_data in
\* use during the run; the selector does not ask.
DisplaySelector(ingest) ==
    /\ Authenticated
    /\ LET ss == session_state
           c == selector_client(ss)
       IN  IF selector_no_token(ss)
           THEN /\ ~ingest
                /\ selector' = [op |-> "no token"]
           ELSE IF ~c.ok
           THEN /\ ~ingest
                /\ selector' = [op |-> "error", error |-> c.error]
           ELSE selector' =
                   [op |-> IF ingest THEN "process_confluence_pages"
                           ELSE "get_spaces",
                    Authorization |-> c.Authorization,
                    expired |-> IF c.auth_type = "oauth2"
                                THEN Some(is_token_expired(
                                        Val(ss.confluence_token_data)))
                                ELSE Absent]
    /\ UNCHANGED <<session_state, query_params, generated, exchanges,
                   tokenVars, ingestVars, validateVars, helperVars, urlVars>>

\* lines 377-385: "Disconnect from Confluence" clicked; the button is
\* shown after the client was built and spaces and pages were listed
Disconnect ==
    /\ Authenticated
    /\ ~selector_no_token(session_state)
    /\ selector_client(session_state).ok
    /\ session_state' =
          [session_state EXCEPT !.confluence_authenticated = Some(FALSE),
                                !.confluence_url = Absent,
                                !.confluence_email = Absent,
                                !.confluence_token = Absent,
                                !.confluence_token_data = Absent,
                                !.confluence_auth_type = Absent]
    /\ selector' = NoSelectorRun
    /\ UNCHANGED <<query_params, generated, exchanges, tokenVars,
                   ingestVars, validateVars,
                   helperVars, urlVars>>

\* lines 387-392: "Reconnect" clicked; the button is shown when the
\* selector raised, which any request of it can do
Reconnect ==
    /\ Authenticated
    /\ ~selector_no_token(session_state)
    /\ session_state' =
          [session_state EXCEPT !.confluence_authenticated = Some(FALSE)]
    /\ selector' = NoSelectorRun
    /\ UNCHANGED <<query_params, generated, exchanges, tokenVars,
                   ingestVars, validateVars,
                   helperVars, urlVars>>

\* the states a callback URL can carry: none, "", a forged one, one that
\* get_authorization_url has generated
CallbackStates ==
    {Absent} \cup {Some(k) : k \in {Forged, EmptyString} \cup 1..generated}

\* the browser loads the page with another URL
Navigate(code, state) ==
    /\ query_params' = [code |-> code, state |-> state]
    /\ query_params' # query_params
    /\ selector' = NoSelectorRun
    /\ UNCHANGED <<session_state, generated, exchanges, tokenVars,
                   ingestVars, validateVars,
                   helperVars, urlVars>>

\* the browser opens a new session on the page
NewSession ==
    /\ session_state # EmptySession
    /\ session_state' = EmptySession
    /\ selector' = NoSelectorRun
    /\ UNCHANGED <<query_params, generated, exchanges, tokenVars,
                   ingestVars, validateVars,
                   helperVars, urlVars>>

InitUI ==
    /\ selector = NoSelectorRun
    /\ session_state = EmptySession
    /\ query_params = NoQuery
    /\ generated = 0
    /\ exchanges = <<>>

NextUI ==
    \/ \E outcome \in LoginOutcomes : OAuthCallback(outcome)
    \/ \E u \in Urls : Authorize(u)
    \/ \E u \in {Absent} \cup {Some(x) : x \in Urls},
          e \in {Absent} \cup {Some(x) : x \in Emails},
          t \in {Absent} \cup {Some(x) : x \in ApiTokens},
          v \in BOOLEAN : LegacyLogin(u, e, t, v)
    \/ \E ingest \in BOOLEAN : DisplaySelector(ingest)
    \/ Disconnect
    \/ Reconnect
    \/ \E code \in {Absent} \cup {Some(c) : c \in AuthCodes},
          state \in CallbackStates : Navigate(code, state)
    \/ NewSession
    \/ Tick

----------------------------------------------------------------------------
(* Direct calls of ConfluenceClient and ConfluenceOAuth2 methods           *)

NoHelperCall == [op |-> "none"]

\* the arguments a caller can construct a ConfluenceClient with; a
\* credential that is None or "" is Absent
ClientArgs ==
    [base_url : {Absent, Some("https://wiki")},
     email : {Absent, Some("me@corp")},
     api_token : {Absent, Some("secret")},
     access_token : {Absent, Some("at1")},
     auth_type : AuthTypes]

\* ConfluenceClient(...): requests.Session() and headers.update send nothing
NewConfluenceClient(a) ==
    LET c == ConfluenceClient(a.base_url, a.email, a.api_token,
                              a.access_token, a.auth_type)
    IN  /\ helperCall' = [op |-> "ConfluenceClient", args |-> a,
                          result |-> c, requests |-> <<>>]
        /\ helperClient' = IF c.ok THEN c ELSE helperClient
        /\ UNCHANGED <<tokenVars, ingestVars, validateVars, uiVars, urlVars>>

\* client.verify_authentication(): one GET /wiki/api/v2/me
VerifyAuthenticationCall(outcome) ==
    /\ helperClient # NoClient
    /\ LET r == verify_authentication_call(outcome)
       IN  helperCall' = [op |-> "verify_authentication",
                          outcome |-> outcome, ret |-> r.ret,
                          raised |-> r.raised, requests |-> <<"me">>]
    /\ UNCHANGED <<helperClient, tokenVars, ingestVars, validateVars, uiVars, urlVars>>

\* oauth.exchange_code_for_token(auth_code) or
\* oauth.refresh_access_token(refresh_token); expired is what
\* is_token_expired says of the returned token_data at the return
TokenEndpointCall(op, outcome) ==
    /\ LET r == IF op = "exchange_code_for_token"
                THEN exchange_code_for_token(outcome)
                ELSE refresh_access_token(outcome)
       IN  helperCall' = [op |-> op, outcome |-> outcome, ret |-> r.ret,
                          raised |-> r.raised, at |-> now,
                          expired |-> IF r.ret = Absent THEN Absent
                                      ELSE Some(is_token_expired(Val(r.ret)))]
    /\ UNCHANGED <<helperClient, tokenVars, ingestVars, validateVars, uiVars, urlVars>>

ExchangeCodeForToken(outcome) ==
    TokenEndpointCall("exchange_code_for_token", outcome)

RefreshAccessToken(outcome) ==
    TokenEndpointCall("refresh_access_token", outcome)

InitHelpers ==
    /\ helperClient = NoClient
    /\ helperCall = NoHelperCall

NextHelpers ==
    \/ Tick
    \/ \E a \in ClientArgs : NewConfluenceClient(a)
    \/ \E outcome \in MeOutcomes : VerifyAuthenticationCall(outcome)
    \/ \E outcome \in ExchangeOutcomes : ExchangeCodeForToken(outcome)
    \/ \E outcome \in ExchangeOutcomes : RefreshAccessToken(outcome)

----------------------------------------------------------------------------
(* pages/01_Ingest_Data.py: add_urls and add_url_embeddings                *)

\* the lines a user can type: an empty line, a line of blanks, two URLs
UrlEntries == {"", " ", "http://a", "http://b"}

\* str.strip(url) is the empty string, which is false
blank(url) == url \in {"", " "}

\* st.session_state["urls"].split("\n"): at least one element, [""] for an
\* empty text area
UrlLists == UNION {[1..n -> UrlEntries] : n \in 1..MaxUrls}

\* st.session_state["urls"] = ""
EmptyText == <<"">>

\* what requests.post can do: answer with r.ok true, with r.ok false, raise
PostOutcomes == {"ok", "not ok", "raise"}

\* line 80: bool(list(filter(str.strip, urls)))
has_valid_url(url_list) == \E i \in 1..Len(url_list) : ~blank(url_list[i])

\* add_urls, lines 66-68: the button is clicked with some text typed
AddUrls ==
    /\ url_pc = "idle"
    /\ urls_text' \in UrlLists
    /\ urls' = urls_text'
    /\ url_pc' = "validate"
    /\ UNCHANGED <<url_cursor, posts, url_result, tokenVars, ingestVars,
                   validateVars, uiVars, helperVars>>

\* add_url_embeddings, lines 80-83
CheckUrls ==
    /\ url_pc = "validate"
    /\ IF has_valid_url(urls)
       THEN /\ url_pc' = "post"
            /\ UNCHANGED url_result
       ELSE /\ url_pc' = "returned"
            /\ url_result' = Some(FALSE)
    /\ UNCHANGED <<urls, url_cursor, posts, urls_text, tokenVars,
                   ingestVars, validateVars, uiVars, helperVars>>

\* lines 89-99, one iteration of the loop over urls
PostUrl(outcome) ==
    /\ url_pc = "post"
    /\ url_cursor <= Len(urls)
    /\ posts' = Append(posts, <<urls[url_cursor], outcome>>)
    /\ url_cursor' = url_cursor + 1
    /\ CASE outcome = "ok" -> UNCHANGED <<url_pc, url_result>>
         [] outcome = "not ok" -> /\ url_pc' = "returned"
                                  /\ url_result' = Some(FALSE)
         [] OTHER -> /\ url_pc' = "raised"
                     /\ UNCHANGED url_result
    /\ UNCHANGED <<urls, urls_text, tokenVars, ingestVars, validateVars,
                   uiVars, helperVars>>

\* line 100
ReturnTrue ==
    /\ url_pc = "post"
    /\ url_cursor > Len(urls)
    /\ url_pc' = "returned"
    /\ url_result' = Some(TRUE)
    /\ UNCHANGED <<urls, url_cursor, posts, urls_text, tokenVars,
                   ingestVars, validateVars, uiVars, helperVars>>

\* add_urls, lines 69-71
ClearTextArea ==
    /\ url_pc = "returned"
    /\ url_pc' = "done"
    /\ urls_text' = IF url_result = Some(TRUE) THEN EmptyText ELSE urls_text
    /\ UNCHANGED <<urls, url_cursor, posts, url_result, tokenVars,
                   ingestVars, validateVars, uiVars, helperVars>>

InitUrls ==
    /\ url_pc = "idle"
    /\ urls = NoArgs
    /\ url_cursor = 1
    /\ posts = <<>>
    /\ url_result = Absent
    /\ urls_text = EmptyText

NextUrls ==
    \/ AddUrls
    \/ CheckUrls
    \/ \E outcome \in PostOutcomes : PostUrl(outcome)
    \/ ReturnTrue
    \/ ClearTextArea

Init ==
    /\ InitToken /\ InitIngest /\ InitValidate /\ InitUI /\ InitHelpers
    /\ InitUrls

SpecToken == Init /\ [][NextToken]_vars

SpecIngest == Init /\ [][NextIngest]_vars

SpecValidate == Init /\ [][NextValidate]_vars

SpecUI == Init /\ [][NextUI]_vars

SpecHelpers == Init /\ [][NextHelpers]_vars

SpecUrls == Init /\ [][NextUrls]_vars

\* all components together; the claims are checked per component
Next == NextToken \/ NextIngest \/ NextValidate \/ NextUI \/ NextHelpers
          \/ NextUrls

Spec == Init /\ [][Next]_vars

----------------------------------------------------------------------------
(* Claims about TokenManager.get_valid_token and is_token_expired,         *)
(* checked under SpecToken.                                                *)

\* the last step was a get_valid_token call
GotToken == tmCall.op = "get_valid_token"

\* the record stored under the key before the call, when there was one
HadRecord == GotToken /\ tmCall.before[tmCall.key] \notin {NoEntry, PyNone}
RecordBefore == tmCall.before[tmCall.key]

\* the call found an expired record with a refresh token and was given a
\* callback that returned a token record
RefreshedOk ==
    /\ HadRecord
    /\ is_token_expired(RecordBefore)
    /\ RecordBefore.refresh_token # Absent
    /\ tmCall.cb \in CallbackRecords

\* C2: on an expired record with a refresh token and a callback that
\* succeeds, get_valid_token calls the callback exactly once with the stored
\* refresh token, replaces the record under the key by the callback's record
\* and returns that record's access token.
C2_RefreshReplacesRecord ==
    RefreshedOk =>
        /\ tmCall.refreshCalls = <<Val(RecordBefore.refresh_token)>>
        /\ tokens[tmCall.key] = tmCall.cb
        /\ \A k \in Keys \ {tmCall.key} : tokens[k] = tmCall.before[k]
        /\ tmCall.ret = tmCall.cb.access_token
        /\ ~tmCall.raised

C2_Witness ==
    /\ RefreshedOk
    /\ tmCall.ret = Some("at2")
    /\ RecordBefore.access_token = Some("at1")
    /\ tokens[tmCall.key] # RecordBefore

\* C3: get_valid_token returns None and does not raise when there is no
\* record, when the record is expired and has no refresh token, when it is
\* expired and no callback is given, and when the callback raises; it returns
\* a token only for a record that is not expired or after a successful refresh.
C3_AbsentCases ==
    GotToken =>
        /\ ~tmCall.raised
        /\ ~HadRecord => tmCall.ret = Absent
        /\ (HadRecord /\ is_token_expired(RecordBefore)
              /\ (\/ RecordBefore.refresh_token = Absent
                  \/ tmCall.cb = NoCallback
                  \/ tmCall.cb = Raises)) => tmCall.ret = Absent
        /\ tmCall.ret # Absent =>
              /\ HadRecord
              /\ ~is_token_expired(RecordBefore) \/ RefreshedOk

C3_Witness ==
    /\ HadRecord
    /\ is_token_expired(RecordBefore)
    /\ RecordBefore.refresh_token # Absent
    /\ RecordBefore.access_token # Absent
    /\ tmCall.cb = Raises
    /\ tmCall.refreshCalls # <<>>
    /\ tmCall.ret = Absent

\* C4: on a record that is not expired get_valid_token returns the stored
\* access token, does not call the callback and leaves the store as it was.
C4_FreshTokenUntouched ==
    (HadRecord /\ ~is_token_expired(RecordBefore)) =>
        /\ tmCall.ret = RecordBefore.access_token
        /\ tmCall.refreshCalls = <<>>
        /\ tokens = tmCall.before
        /\ ~tmCall.raised

C4_Witness ==
    /\ HadRecord
    /\ ~is_token_expired(RecordBefore)
    /\ RecordBefore.refresh_token # Absent
    /\ tmCall.cb \in CallbackRecords
    /\ tmCall.ret = Some("at1")

\* a token record obtained at instant t that lasts e seconds
RecordOf(t, e, a, r) ==
    [access_token |-> a, refresh_token |-> r, expires_in |-> Some(e),
     obtained_at |-> Some(isoformat(t))]

\* C5: is_token_expired is true when obtained_at or expires_in is missing;
\* otherwise it is true exactly when now >= obtained_at + expires_in - 300 s.
C5_ExpiryMargin ==
    \A rec \in TokenRecords :
        /\ (rec.obtained_at = Absent \/ rec.expires_in = Absent)
              => is_token_expired(rec)
        /\ \A t \in Times, e \in ExpiresInValues :
              rec = RecordOf(t, e, rec.access_token, rec.refresh_token)
                  => (is_token_expired(rec) <=> now >= t + e - 300)

\* both sides of the boundary: a call one second before the margin got the
\* stored token, and the store holds a record exactly at the margin
C5_Witness ==
    /\ HadRecord
    /\ \E t \in Times, e \in ExpiresInValues :
          /\ RecordBefore = RecordOf(t, e, Some("at1"), Absent)
          /\ now = t + e - 301
          /\ tmCall.ret = Some("at1")
    /\ \E k \in Keys, t \in Times, e \in ExpiresInValues :
          /\ tokens[k] = RecordOf(t, e, Some("at1"), Absent)
          /\ now = t + e - 300
          /\ is_token_expired(tokens[k])

\* C18: a get_valid_token call that returns None leaves the store as it
\* was, the record under the key included, also when the callback raised,
\* returned a token_data without an access token or returned no dict.
C18_AbsentLeavesStore ==
    (GotToken /\ tmCall.ret = Absent) => tokens = tmCall.before

\* every key but the given one holds after the step what it held before
OtherKeysKept(key) == \A k \in Keys \ {key} : tokens'[k] = tokens[k]

\* C12: store_token makes get_token return the record stored, whatever the
\* key held before; delete_token makes get_token return None and changes
\* nothing when the key is not stored; both leave every other key as it was;
\* clear_all leaves no key stored.
C12_StoreFrame ==
    [][/\ tmCall'.op = "store_token" =>
             /\ get_token(tokens', tmCall'.key) = tmCall'.token_data
             /\ OtherKeysKept(tmCall'.key)
       /\ tmCall'.op = "delete_token" =>
             /\ get_token(tokens', tmCall'.key) = PyNone
             /\ OtherKeysKept(tmCall'.key)
             /\ tokens[tmCall'.key] = NoEntry => tokens' = tokens
       /\ tmCall'.op = "clear_all" =>
             \A k \in Keys : get_token(tokens', k) = PyNone]_vars

\* a record was stored under one key while the other key held another record
C12_Witness ==
    /\ tmCall.op = "store_token"
    /\ tokens[tmCall.key].refresh_token = Absent
    /\ \E k \in Keys \ {tmCall.key} :
          tokens[k] \in TokenRecords /\ tokens[k].refresh_token # Absent

----------------------------------------------------------------------------
(* Claims about process_confluence_pages, checked under SpecIngest.        *)

\* the pages whose content was requested, in request order
PagesFetched ==
    LET fetches == SelectSeq(requests, LAMBDA r : r[1] = "page")
    IN  [i \in 1..Len(fetches) |-> fetches[i][2]]

\* the child-page requests, in request order
ChildFetches == SelectSeq(requests, LAMBDA r : r[1] = "child-pages")

\* the loop over all_page_ids has handled its first n elements
Handled == IF pc = "returned" THEN Len(all_page_ids) ELSE cursor - 1

PastPreflight == pc \in {"collect", "process", "returned"}

\* C6: once past the authentication check, the failure of one page at any
\* step is caught and recorded as (id, message), the pages after it are
\* still attempted, and the function returns instead of raising.
C6_PerPageIsolation ==
    /\ [](pc \in {"process", "returned"} =>
            /\ raised = Absent
            /\ PagesFetched = SubSeq(all_page_ids, 1, Handled)
            /\ \A i \in 1..Handled :
                  wiki[all_page_ids[i]] # "ok" =>
                     \E j \in 1..Len(errors) :
                        errors[j] = <<all_page_ids[i],
                                      ErrorMsg(wiki[all_page_ids[i]])>>
            /\ pc = "returned" \/ ENABLED (ProcessStep \/ Return))
    /\ [][pc = "process" => pc' \in {"process", "returned"}]_vars

\* the first page failed at upload, the second at fetch, the third went through
C6_Witness ==
    /\ pc = "returned"
    /\ Len(all_page_ids) = 3
    /\ wiki[all_page_ids[1]] = "upload_fails"
    /\ wiki[all_page_ids[2]] = "no_title"
    /\ wiki[all_page_ids[3]] = "ok"
    /\ Len(errors) = 2
    /\ Len(successful_uploads) = 1

RECURSIVE TitlesOfOk(_)
TitlesOfOk(ids) ==
    IF ids = <<>> THEN <<>>
    ELSE (IF wiki[Head(ids)] = "ok" THEN <<WikiTitle[Head(ids)]>> ELSE <<>>)
            \o TitlesOfOk(Tail(ids))

RECURSIVE PairsOfFailed(_)
PairsOfFailed(ids) ==
    IF ids = <<>> THEN <<>>
    ELSE (IF wiki[Head(ids)] # "ok"
          THEN <<<<Head(ids), ErrorMsg(wiki[Head(ids)])>>>> ELSE <<>>)
            \o PairsOfFailed(Tail(ids))

\* C7: every element of the working list that was handled gave exactly one
\* outcome, its title in successful_uploads or one (id, message) pair in
\* errors; the two lists together are as long as the working list and each
\* keeps the working list's order.
C7_OneOutcomePerPage ==
    pc \in {"process", "returned"} =>
        LET handled == SubSeq(all_page_ids, 1, Handled)
        IN  /\ Len(successful_uploads) + Len(errors) = Len(handled)
            /\ successful_uploads = TitlesOfOk(handled)
            /\ errors = PairsOfFailed(handled)

C7_Witness ==
    /\ pc = "returned"
    /\ args.page_ids = <<"p1", "p2", "p3">>
    /\ all_page_ids = <<"p1", "p2", "p3">>
    /\ wiki["p2"] = "fetch_fails"
    /\ successful_uploads = <<"Title 1", "Title 3">>
    /\ errors = <<<<"p2", "HTTPError">>>>

\* C8: when the client cannot be built or verify_authentication returns
\* False the function raises, returns no result, and requests no child
\* pages, no page content and no upload.
C8_PreflightAbort ==
    /\ (pc \notin {"idle", "init_client"} /\ ~init_client(args).ok) =>
          pc = "raised" /\ requests = <<>>
    /\ \A i \in 1..Len(requests) :
          (requests[i][1] = "me" /\ ~verify_authentication(requests[i][2])) =>
              pc = "raised" /\ Len(requests) = 1
    /\ pc = "raised" =>
          /\ \A i \in 1..Len(requests) : requests[i][1] = "me"
          /\ successful_uploads = <<>>
          /\ errors = <<>>
          /\ raised # Absent

C8_Witness ==
    /\ pc = "raised"
    /\ args.page_ids # <<>>
    /\ args.include_children
    /\ requests = <<<<"me", "401">>>>

RECURSIVE Expanded(_, _)
\* the working list the child fetches of the log lead to
Expanded(ids, fetches) ==
    IF ids = <<>> THEN <<>>
    ELSE <<Head(ids)>>
            \o (IF Head(fetches)[3] = "ok" THEN WikiChildren[Head(ids)]
                ELSE <<>>)
            \o Expanded(Tail(ids), Tail(fetches))

\* C9: with include_children, when the child fetch of one input id fails
\* that id stays in the working list without its children and is processed,
\* no error pair is recorded for the failed child fetch, and the children of
\* the other input ids are still fetched and added.
C9_ChildFetchFailureSkipped ==
    (PastPreflight /\ args.include_children) =>
        /\ pc = "collect" => errors = <<>>
        /\ \A j \in 1..Len(errors) :
              /\ wiki[errors[j][1]] \notin {Unfetched, "ok"}
              /\ errors[j][2] = ErrorMsg(wiki[errors[j][1]])
        /\ Len(errors) <= Len(PagesFetched)
        /\ pc \in {"process", "returned"} =>
              /\ Len(ChildFetches) = Len(args.page_ids)
              /\ \A i \in 1..Len(args.page_ids) :
                    ChildFetches[i][2] = args.page_ids[i]
              /\ all_page_ids = Expanded(args.page_ids, ChildFetches)
        /\ pc = "returned" =>
              \A i \in 1..Len(args.page_ids) :
                  \E k \in 1..Len(PagesFetched) :
                      PagesFetched[k] = args.page_ids[i]

\* the child fetch of p1 failed, that of p2 did not; nothing else failed
C9_Witness ==
    /\ pc = "returned"
    /\ args.include_children
    /\ args.page_ids = <<"p1", "p2">>
    /\ ChildFetches = <<<<"child-pages", "p1", "raise">>,
                        <<"child-pages", "p2", "ok">>>>
    /\ all_page_ids = <<"p1", "p2", "p3">>
    /\ errors = <<>>
    /\ Len(successful_uploads) = 3

\* C21: a page whose content is fetched but whose response carries no title
\* is uploaded under the title "confluence-page-<id>", that title is in
\* successful_uploads, and no error pair is recorded for the page.
C21_FallbackTitleUsed ==
    pc \in {"process", "returned"} =>
        \A i \in 1..Handled :
            LET page_id == all_page_ids[i]
            IN  wiki[page_id] = "no_title" =>
                  /\ \E k \in 1..Len(requests) :
                        requests[k] =
                           <<"upload", page_id, fallback_title(page_id)>>
                  /\ \E k \in 1..Len(successful_uploads) :
                        successful_uploads[k] = fallback_title(page_id)
                  /\ \A j \in 1..Len(errors) : errors[j][1] # page_id

\* the pages uploaded, in upload order
PagesUploaded ==
    LET uploads == SelectSeq(requests, LAMBDA r : r[1] = "upload")
    IN  [i \in 1..Len(uploads) |-> uploads[i][2]]

\* no element occurs twice in the sequence
NoDuplicates(seq) ==
    \A i \in 1..Len(seq), j \in 1..Len(seq) : i # j => seq[i] # seq[j]

\* C17: the working collection of process_confluence_pages is a set: within
\* one batch no page id is in it twice and none is fetched or uploaded more
\* than once, also when an input id is the child of another input id or the
\* input repeats an id.
C17_WorkingListIsSet ==
    /\ NoDuplicates(all_page_ids)
    /\ NoDuplicates(PagesFetched)
    /\ NoDuplicates(PagesUploaded)

\* C20: without include_children the working list is page_ids and no child
\* pages are requested; with include_children it is, for each input id in
\* input order, the id followed by the children the one child-pages request
\* for it returned, in the order returned, and by nothing else; the children
\* of children are not requested.
C20_WorkingListFromInput ==
    /\ (PastPreflight /\ ~args.include_children) =>
          /\ ChildFetches = <<>>
          /\ all_page_ids = SubSeq(args.page_ids, 1, Len(all_page_ids))
          /\ pc # "collect" => all_page_ids = args.page_ids
    /\ (PastPreflight /\ args.include_children) =>
          LET done == Len(ChildFetches)
          IN  /\ done <= Len(args.page_ids)
              /\ pc # "collect" => done = Len(args.page_ids)
              /\ \A i \in 1..done : ChildFetches[i][2] = args.page_ids[i]
              /\ all_page_ids =
                    Expanded(SubSeq(args.page_ids, 1, done), ChildFetches)

\* p1 and its child p2 are both input ids: p2 and p3 are not expanded where
\* they are children, p2 is where it is an input id
C20_Witness ==
    /\ pc = "returned"
    /\ args.include_children
    /\ args.page_ids = <<"p1", "p2">>
    /\ ChildFetches = <<<<"child-pages", "p1", "ok">>,
                        <<"child-pages", "p2", "ok">>>>
    /\ all_page_ids = <<"p1", "p2", "p3", "p2", "p3">>

----------------------------------------------------------------------------
(* Claims about validate_confluence_credentials, checked under             *)
(* SpecValidate.                                                           *)

\* the client was built, GET /me answered 200 and get_spaces returned at
\* least one space
ValidatedAll ==
    /\ vclient # NoClient
    /\ \E i \in 1..Len(vrequests) : vrequests[i] = <<"me", "200">>
    /\ \E i \in 1..Len(vrequests) :
          /\ vrequests[i][1] = "spaces"
          /\ vrequests[i][2] = "ok"
          /\ Len(vrequests[i][3]) >= 1

\* C10: validate_confluence_credentials never raises; it returns
\* (True, "Authentication successful") exactly when the client was built,
\* verify_authentication returned True and get_spaces(limit=1) returned at
\* least one space, and (False, message) in every other case.
C10_ValidateResult ==
    /\ vpc # "raised"
    /\ vpc = "returned" <=> vresult # Absent
    /\ vpc = "returned" =>
          /\ Val(vresult) = <<TRUE, "Authentication successful">>
                <=> ValidatedAll
          /\ ~ValidatedAll => Val(vresult)[1] = FALSE
    /\ vpc \notin {"idle", "returned"} => ENABLED NextValidate

\* one call returned True and the same arguments can also end in each failure
C10_Witness ==
    /\ vpc = "returned"
    /\ Val(vresult) = <<TRUE, "Authentication successful">>
    /\ vargs.auth_type = "oauth2"
    /\ Len(vrequests) = 2

----------------------------------------------------------------------------
(* Claims about the OAuth2 flow of the page, checked under SpecUI.         *)

\* the step made the session an authenticated oauth2 session
OAuthLoggedIn ==
    /\ ~Authenticated
    /\ session_state'.confluence_authenticated = Some(TRUE)
    /\ session_state'.confluence_auth_type = Some("oauth2")

\* C1: exchange_code_for_token is called only when the state of the callback
\* equals the state get_authorization_url generated and the session stored;
\* on a mismatch, a missing callback state or no stored state included, no
\* exchange is made and the session is not marked authenticated.
C1_ExchangeOnlyOnMatchingState ==
    /\ [](\A i \in 1..Len(exchanges) :
             /\ exchanges[i].stored # Absent
             /\ exchanges[i].state = exchanges[i].stored
             /\ Val(exchanges[i].stored) \in 1..generated)
    /\ [][/\ exchanges' # exchanges =>
                /\ query_params.state = session_state.oauth_state
                /\ session_state.oauth_state # Absent
                /\ Len(exchanges') = Len(exchanges) + 1
          /\ OAuthLoggedIn =>
                /\ Len(exchanges') = Len(exchanges) + 1
                /\ exchanges'[Len(exchanges')].ok
          /\ (query_params.state # session_state.oauth_state
                \/ session_state.oauth_state = Absent) =>
                /\ exchanges' = exchanges
                /\ ~OAuthLoggedIn]_vars

\* a second state was generated, a callback carried it and was exchanged
C1_Witness ==
    /\ generated = 2
    /\ Len(exchanges) = 1
    /\ exchanges[1].state = Some(2)
    /\ exchanges[1].ok
    /\ Authenticated
    /\ session_state.confluence_auth_type = Some("oauth2")

----------------------------------------------------------------------------
(* Claims about direct calls of ConfluenceClient and ConfluenceOAuth2,     *)
(* checked under SpecHelpers.                                              *)

\* the last call constructed a ConfluenceClient with a base URL
Constructed ==
    helperCall.op = "ConfluenceClient" /\ helperCall.args.base_url # Absent

\* the credentials handed over are those the auth type asks for
MatchingShape(a) ==
    \/ a.auth_type = "oauth2" /\ a.access_token # Absent
    \/ a.auth_type = "basic" /\ a.email # Absent /\ a.api_token # Absent

\* C11: constructing a ConfluenceClient sends no request; it succeeds exactly
\* when auth_type is "oauth2" and an access token is given or auth_type is
\* "basic" and both an email and an api token are given, and raises
\* ValueError for every other auth type and credentials.
C11_ConstructorAcceptance ==
    Constructed =>
        /\ helperCall.result.ok <=> MatchingShape(helperCall.args)
        /\ ~helperCall.result.ok => helperCall.result.error = "ValueError"
        /\ helperCall.requests = <<>>

\* an unknown auth type given every credential is refused
C11_Witness ==
    /\ Constructed
    /\ helperCall.args.auth_type = "saml"
    /\ helperCall.args.email # Absent
    /\ helperCall.args.api_token # Absent
    /\ helperCall.args.access_token # Absent
    /\ helperCall.result = [ok |-> FALSE, error |-> "ValueError"]

\* a status of the 2xx class
SuccessStatus(outcome) == outcome \in {"200", "203"}

\* the last call was verify_authentication
Verified == helperCall.op = "verify_authentication"

\* C13 as stated: verify_authentication never raises and returns True exactly
\* when GET /wiki/api/v2/me answers with a success status.
C13_TrueOnAnySuccessStatus ==
    Verified =>
        /\ helperCall.raised = Absent
        /\ helperCall.ret = Some(SuccessStatus(helperCall.outcome))

\* C13, amended: verify_authentication never raises; it returns True exactly
\* when GET /wiki/api/v2/me answers with status 200 and False for every
\* other status and for every exception of the request.
C13_TrueOnStatus200 ==
    Verified =>
        /\ helperCall.raised = Absent
        /\ helperCall.ret = Some(helperCall.outcome = "200")
        /\ helperCall.requests = <<"me">>

\* the request raised and the call returned False
C13_Witness ==
    /\ Verified
    /\ helperCall.outcome = "ConnectionError"
    /\ helperCall.ret = Some(FALSE)
    /\ helperCall.raised = Absent

\* the last call was exchange_code_for_token or refresh_access_token
TokenEndpointCalled ==
    helperCall.op \in {"exchange_code_for_token", "refresh_access_token"}

\* C14: exchange_code_for_token and refresh_access_token either raise
\* ValueError or return the token_data of the answer with obtained_at set to
\* the instant of the return, whatever obtained_at the answer carried; a
\* token_data they return with expires_in above 300 seconds is not expired
\* for is_token_expired at that instant.
C14_StampedOrRaises ==
    TokenEndpointCalled =>
        \/ /\ helperCall.ret = Absent
           /\ helperCall.raised = Some("ValueError")
           /\ helperCall.outcome \notin TokenResponses
        \/ /\ helperCall.raised = Absent
           /\ helperCall.ret # Absent
           /\ LET token_data == Val(helperCall.ret)
              IN  /\ token_data.obtained_at = Some(isoformat(helperCall.at))
                  /\ token_data =
                        [helperCall.outcome EXCEPT
                            !.obtained_at = token_data.obtained_at]
                  /\ (/\ token_data.expires_in # Absent
                      /\ Val(token_data.expires_in) > 300)
                        => helperCall.expired = Some(FALSE)

\* a refresh, made after the clock moved, whose answer carried an older
\* obtained_at and lasts 301 seconds
C14_Witness ==
    /\ helperCall.op = "refresh_access_token"
    /\ helperCall.at = StartTime + 1
    /\ helperCall.outcome \in TokenResponses
    /\ helperCall.outcome.obtained_at = Some(isoformat(StartTime - 1))
    /\ helperCall.ret # Absent
    /\ Val(helperCall.ret).expires_in = Some(301)
    /\ Val(helperCall.ret).obtained_at = Some(isoformat(StartTime + 1))
    /\ helperCall.expired = Some(FALSE)

----------------------------------------------------------------------------
(* Claims about the session of the page, checked under SpecUI.             *)

\* the last run of the selector handed the session's credentials to the
\* ConfluenceClient or to process_confluence_pages
CredentialsUsed == selector.op \in {"get_spaces", "process_confluence_pages"}

\* C15: with an oauth2 session the access token the selector hands to
\* get_spaces, get_pages_in_space and process_confluence_pages never comes
\* from a token_data for which is_token_expired is true.
C15_NoExpiredTokenUsed ==
    (CredentialsUsed /\ selector.Authorization[1] = "Bearer") =>
        selector.expired = Some(FALSE)

\* C16: one generated OAuth state lets at most one token exchange be made:
\* no two exchange_code_for_token calls were let through by the same state,
\* and once a callback with a state was accepted no later callback with that
\* state and code is exchanged.
C16_StateSingleUse ==
    \A i \in 1..Len(exchanges), j \in 1..Len(exchanges) :
        i < j =>
            /\ exchanges[i].state # exchanges[j].state
            /\ exchanges[i].ok =>
                  <<exchanges[j].state, exchanges[j].code>>
                      # <<exchanges[i].state, exchanges[i].code>>

\* the session holds a base URL that is a non-empty string
HasBaseUrl(ss) == ss.confluence_url \notin {Absent, Some(NoneUrl)}

\* the session holds the credentials of its auth type
HasCredentials(ss) ==
    \/ /\ ss.confluence_auth_type = Some("oauth2")
       /\ ss.confluence_token_data # Absent
       /\ Val(ss.confluence_token_data).access_token # Absent
    \/ /\ ss.confluence_auth_type = Some("basic")
       /\ ss.confluence_email # Absent
       /\ ss.confluence_token # Absent

\* C19: whenever the session is marked confluence_authenticated it holds a
\* non-empty base URL and the credentials of its auth type, so that the page
\* selector can construct its client.
C19_AuthenticatedSessionComplete ==
    Authenticated =>
        /\ HasBaseUrl(session_state)
        /\ HasCredentials(session_state)
        /\ ~selector_no_token(session_state)
        /\ selector_client(session_state).ok

----------------------------------------------------------------------------
(* Claims about add_url_embeddings, checked under SpecUrls.                *)

\* add_url_embeddings returned or raised
UrlsCalled == url_pc \in {"post", "returned", "done", "raised"}

\* C22: add_url_embeddings posts nothing and returns False when every entry
\* is blank; otherwise it posts the entries one at a time in list order,
\* stops at the first response that is not ok and returns False, and returns
\* True only when every post succeeded; every entry it posts is a non-blank
\* URL; add_urls clears the text area only when it returned True.
C22_PostsNonBlankInOrder ==
    /\ (UrlsCalled /\ ~has_valid_url(urls)) =>
          posts = <<>> /\ url_result = Some(FALSE)
    /\ \A i \in 1..Len(posts) :
          /\ posts[i][1] = urls[i]
          /\ i < Len(posts) => posts[i][2] = "ok"
          /\ ~blank(posts[i][1])
    /\ url_result = Some(TRUE) =>
          /\ Len(posts) = Len(urls)
          /\ \A i \in 1..Len(posts) : posts[i][2] = "ok"
    /\ (Len(posts) > 0 /\ posts[Len(posts)][2] = "not ok") =>
          url_result = Some(FALSE)
    /\ (url_pc = "done" /\ urls_text # urls) =>
          url_result = Some(TRUE) /\ urls_text = EmptyText

====
